---- MODULE Spec2Model ----
(***************************************************************************)
(* Model of gw2load/generate-manifest-action: the release resolvers        *)
(* (src/src/standalone.ts, src/src/github.ts), the binary identification   *)
(* helpers (src/src/addon.ts) and the catalog reconciler                   *)
(* (src/src/main.ts).                                                      *)
(*                                                                         *)
(* Optional JavaScript values (T | undefined) are records: None stands for *)
(* undefined, Err(m) for a thrown Error with message m.                    *)
(***************************************************************************)
EXTENDS Integers, Sequences, FiniteSets, TLC

VARIABLES
    \* ---- isGreater on a pair of versions (src/src/addon.ts) ----
    va, vb, cmp,
    \* ---- createReleaseFromDll on one parsed image (src/src/addon.ts) ----
    image, dllRelease,
    \* ---- createReleaseFromArchive, one probe per step (src/src/addon.ts) ----
    archive, arcPos, arcTmp, arcProbed, arcResult,
    \* ---- one resolver call (src/src/standalone.ts, src/src/github.ts) ----
    kind, existing, host, remote, result, again,
    \* ---- generateManifest passes (src/src/main.ts) ----
    pc, pass, manifestFile, addons, idx, loader, log, started, snap, emitted

versionVars == <<va, vb, cmp>>
dllVars == <<image, dllRelease>>
archiveVars == <<archive, arcPos, arcTmp, arcProbed, arcResult>>
resolveVars == <<kind, existing, host, remote, result, again>>
passVars == <<pc, pass, manifestFile, addons, idx, loader, log, started, snap, emitted>>
vars == <<versionVars, dllVars, archiveVars, resolveVars, passVars>>

\* ------------------------------------------------------------------------
\* Values
\* ------------------------------------------------------------------------
None == [tag |-> "none"]
Err(m) == [tag |-> "err", msg |-> m]
IsErr(x) == x.tag = "err"
IsRel(x) == x.tag = "rel"

\* release.asset_index === undefined
NoIndex == -1

\* Idle value of the variables a specification does not use.
Idle == [tag |-> "idle"]

\* ------------------------------------------------------------------------
\* Bounds
\* ------------------------------------------------------------------------
\* largest version component enumerated for isGreater
MaxComp == 2
\* largest number of '.dll'/other entries in an archive
MaxEntries == 3
\* largest number of assets of one hosted release
MaxAssets == 2
\* largest number of entries of the hosted release list
MaxReleases == 2
\* largest number of entries of the hosted release list during a run
PassReleases == 1

\* ------------------------------------------------------------------------
\* src/src/addon.ts
\* ------------------------------------------------------------------------
RECURSIVE isGreaterFrom(_, _, _)
isGreaterFrom(a, b, i) ==
    IF i > 4 THEN FALSE
    ELSE IF a[i] # b[i] THEN a[i] > b[i]
    ELSE isGreaterFrom(a, b, i + 1)

\* mutant: the loop stops one component early (i < 3)
isGreaterShort(a, b) ==
    IF a[1] # b[1] THEN a[1] > b[1]
    ELSE IF a[2] # b[2] THEN a[2] > b[2]
    ELSE IF a[3] # b[3] THEN a[3] > b[3]
    ELSE FALSE

isGreater(a, b) == isGreaterFrom(a, b, 1)

\* mutant: the "0.0.0.0 is not a valid version" test is missing
parseVersionZeroValid(ms, ls) ==
    [tag |-> "ver",
     v |-> << (ms \div 65536) % 65536, ms % 65536,
              (ls \div 65536) % 65536, ls % 65536 >>]

\* [(ms >> 16) & 0xffff, ms & 0xffff, (ls >> 16) & 0xffff, ls & 0xffff]
\* A DWORD is held as the 32-bit signed integer the bitwise operators see
\* (ToInt32): >> 16 is the floored division by 2^16, & 0xffff the
\* non-negative remainder modulo 2^16.
parseVersion(ms, ls) ==
    IF ms = 0 /\ ls = 0 THEN None
    ELSE [tag |-> "ver",
          v |-> << (ms \div 65536) % 65536, ms % 65536,
                   (ls \div 65536) % 65536, ls % 65536 >>]

\* version.join('.')
join(v) ==
    ToString(v[1]) \o "." \o ToString(v[2]) \o "." \o ToString(v[3]) \o "." \o ToString(v[4])

\* a ?? b on string-table lookups: the first key present in the table
Lookup2(tbl, k1, k2, dflt) ==
    IF k1 \in DOMAIN tbl THEN tbl[k1]
    ELSE IF k2 \in DOMAIN tbl THEN tbl[k2]
    ELSE dflt

\* A parsed PE image: hasFixed is "the version resource chain down to the
\* fixed file info exists", hasStrings is "StringFileInfo exists", strings is
\* the first string table as an object.
MkDll(fms, fls, pms, pls, tbl) ==
    [hasFixed |-> TRUE, dwFileVersionMS |-> fms, dwFileVersionLS |-> fls,
     dwProductVersionMS |-> pms, dwProductVersionLS |-> pls,
     hasStrings |-> TRUE, strings |-> tbl]

createReleaseFromDll(dll, id, downloadUrl) ==
    IF ~dll.hasFixed THEN Err("No versionInfoResource found")
    ELSE
      LET fv == parseVersion(dll.dwFileVersionMS, dll.dwFileVersionLS)
          version == IF fv # None THEN fv
                     ELSE parseVersion(dll.dwProductVersionMS, dll.dwProductVersionLS)
      IN IF version = None THEN Err("no addonVersion found")
         ELSE IF ~dll.hasStrings THEN Err("No StringFileInfo found")
         ELSE IF ~({"ProductName", "FileDescription"} \cap DOMAIN dll.strings # {})
              THEN Err("No addonName found")
         ELSE [tag |-> "rel",
               id |-> id,
               name |-> Lookup2(dll.strings, "ProductName", "FileDescription", ""),
               version |-> version.v,
               version_str |-> Lookup2(dll.strings, "FileVersion", "ProductVersion",
                                       join(version.v)),
               download_url |-> downloadUrl,
               asset_index |-> NoIndex]

\* try { execSync(command); return true } catch { return false }
\* exports: "ok" the command finds a required symbol, "none" grep matches
\* nothing (non-zero exit, execSync throws), "fail" the command itself fails.
checkDllExportsLenient(entry) == entry.exports # "none"

checkDllExports(entry) == entry.exports = "ok"

\* Object.keys(unzipped).filter((value) => value.endsWith('.dll')), as the
\* positions of the kept entries in archive order
RECURSIVE dllFilesFrom(_, _)
dllFilesFrom(ar, i) ==
    IF i > Len(ar) THEN << >>
    ELSE IF ar[i].isDll THEN <<i>> \o dllFilesFrom(ar, i + 1)
    ELSE dllFilesFrom(ar, i + 1)

dllFiles(ar) == dllFilesFrom(ar, 1)

ArchiveError == Err("no valid release assets found in archive")

\* the for loop of createReleaseFromArchive from the k-th kept entry on
RECURSIVE probeFrom(_, _, _, _)
probeFrom(ar, k, id, downloadUrl) ==
    IF k > Len(dllFiles(ar)) THEN ArchiveError
    ELSE IF ~checkDllExports(ar[dllFiles(ar)[k]]) THEN probeFrom(ar, k + 1, id, downloadUrl)
    ELSE createReleaseFromDll(ar[dllFiles(ar)[k]].dll, id, downloadUrl)

createReleaseFromArchive(ar, id, downloadUrl) == probeFrom(ar, 1, id, downloadUrl)

\* ------------------------------------------------------------------------
\* Results of the asynchronous helpers: out is the returned value (or Err(m)
\* when the call throws), dl the number of binary downloads the call issued,
\* seen the product names of the binaries it parsed into a Release.
\* ------------------------------------------------------------------------
Out(o, d, s) == [out |-> o, dl |-> d, seen |-> s]
NamesOf(r) == IF IsRel(r) THEN {r.name} ELSE {}
Info(release, prerelease) == [tag |-> "info", release |-> release, prerelease |-> prerelease]

\* ------------------------------------------------------------------------
\* src/src/standalone.ts
\* ------------------------------------------------------------------------
\* createHash('sha256').update(body).digest('hex')
sha256(body) == "sha256(" \o body \o ")"

\* file: the response of fetch(host_url): ok, url (its suffix is ext) and body
createRelease(file, id) ==
    IF ~file.ok THEN Out(Err("Unable to download asset"), 1, {})
    ELSE IF file.ext = "dll"
         THEN LET r == createReleaseFromDll(file.bin, id, file.url) IN Out(r, 1, NamesOf(r))
    ELSE IF file.ext = "zip"
         THEN LET r == createReleaseFromArchive(file.bin, id, file.url) IN Out(r, 1, NamesOf(r))
    ELSE Out(Err("given host url has not supported file ending"), 1, {})

\* mutant: the "is the new release actually newer" test is missing
downloadAndCheckVersionNoOrder(oldRelease, ch) ==
    IF ~ch.versionOk THEN Out(Err("fetching version failed"), 0, {})
    ELSE LET id == sha256(ch.body) IN
         IF oldRelease = None \/ oldRelease.id # id
         THEN createRelease(ch.file, id)
         ELSE Out(oldRelease, 0, {})

\* mutant: an unchanged version response gives no release instead of the
\* recorded one
downloadAndCheckVersionDropUnchanged(oldRelease, ch) ==
    IF ~ch.versionOk THEN Out(Err("fetching version failed"), 0, {})
    ELSE LET id == sha256(ch.body) IN
         IF oldRelease = None \/ oldRelease.id # id
         THEN LET c == createRelease(ch.file, id) IN
              IF IsErr(c.out) THEN c
              ELSE IF oldRelease = None \/ isGreater(c.out.version, oldRelease.version)
                   THEN c
              ELSE Out(oldRelease, c.dl, c.seen)
         ELSE Out(None, 0, {})

\* ch: the remote side of one channel: the version_url response (versionOk,
\* body) and the host_url response (file)
downloadAndCheckVersion(oldRelease, ch) ==
    IF ~ch.versionOk THEN Out(Err("fetching version failed"), 0, {})
    ELSE LET id == sha256(ch.body) IN
         IF oldRelease = None \/ oldRelease.id # id
         THEN LET c == createRelease(ch.file, id) IN
              IF IsErr(c.out) THEN c
              ELSE IF oldRelease = None \/ isGreater(c.out.version, oldRelease.version)
                   THEN c
              ELSE Out(oldRelease, c.dl, c.seen)
         ELSE Out(oldRelease, 0, {})

\* mutant: a prerelease that is not newer leaves the recorded one in place
updateStandaloneKeepPrerelease(ex, h, rem) ==
    LET r == downloadAndCheckVersion(ex.release, rem.stable) IN
    IF IsErr(r.out) THEN r
    ELSE IF h.prerelease_url /\ h.prerelease_version_url /\ r.out # None
         THEN LET p == downloadAndCheckVersion(ex.prerelease, rem.pre) IN
              IF IsErr(p.out) THEN Out(p.out, r.dl + p.dl, r.seen \cup p.seen)
              ELSE IF p.out # None /\ isGreater(p.out.version, r.out.version)
                   THEN Out(Info(r.out, p.out), r.dl + p.dl, r.seen \cup p.seen)
              ELSE Out(Info(r.out, ex.prerelease), r.dl + p.dl, r.seen \cup p.seen)
    ELSE Out(Info(r.out, ex.prerelease), r.dl, r.seen)

\* h: prerelease_url / prerelease_version_url configured (truthy) or not
updateStandalone(ex, h, rem) ==
    LET r == downloadAndCheckVersion(ex.release, rem.stable) IN
    IF IsErr(r.out) THEN r
    ELSE IF h.prerelease_url /\ h.prerelease_version_url /\ r.out # None
         THEN LET p == downloadAndCheckVersion(ex.prerelease, rem.pre) IN
              IF IsErr(p.out) THEN Out(p.out, r.dl + p.dl, r.seen \cup p.seen)
              ELSE IF p.out # None /\ isGreater(p.out.version, r.out.version)
                   THEN Out(Info(r.out, p.out), r.dl + p.dl, r.seen \cup p.seen)
              ELSE Out(Info(r.out, None), r.dl + p.dl, r.seen \cup p.seen)
    ELSE Out(Info(r.out, None), r.dl, r.seen)

\* ------------------------------------------------------------------------
\* src/src/github.ts
\* ------------------------------------------------------------------------
\* asset: id, ok (getReleaseAsset answers), ext (suffix of asset.name), bin
downloadFromGithub(asset) ==
    IF ~asset.ok THEN Err("getReleaseAsset failed")
    ELSE IF asset.ext = "dll"
         THEN createReleaseFromDll(asset.bin, ToString(asset.id), asset.url)
    ELSE IF asset.ext = "zip"
         THEN createReleaseFromArchive(asset.bin, ToString(asset.id), asset.url)
    ELSE None

checkAssetChanged(release, githubRelease) ==
    IF release = None \/ release.asset_index = NoIndex THEN TRUE
    ELSE LET k == release.asset_index + 1 IN
         \/ k > Len(githubRelease.assets)
         \/ ToString(githubRelease.assets[k].id) # release.id

\* mutant: an asset that is neither '.dll' nor '.zip' ends the scan
scanAssetsNoSkip(oldRelease, assets, i) ==
    IF i > Len(assets) THEN Out(Err("no valid release asset found"), 0, {})
    ELSE LET d == downloadFromGithub(assets[i]) IN
         IF IsErr(d) THEN Out(d, 1, {})
         ELSE IF d # None
              THEN LET release == [d EXCEPT !.asset_index = i - 1] IN
                   IF oldRelease = None \/ isGreater(release.version, oldRelease.version)
                   THEN Out(release, 1, {release.name})
                   ELSE Out(oldRelease, 1, {release.name})
         ELSE Out(Err("no valid release asset found"), 1, {})

\* the for loop of findAndCreateRelease from asset position i (1-based) on
RECURSIVE scanAssets(_, _, _)
scanAssets(oldRelease, assets, i) ==
    IF i > Len(assets) THEN Out(Err("no valid release asset found"), 0, {})
    ELSE LET d == downloadFromGithub(assets[i]) IN
         IF IsErr(d) THEN Out(d, 1, {})
         ELSE IF d # None
              THEN LET release == [d EXCEPT !.asset_index = i - 1] IN
                   IF oldRelease = None \/ isGreater(release.version, oldRelease.version)
                   THEN Out(release, 1, {release.name})
                   ELSE Out(oldRelease, 1, {release.name})
         ELSE LET rest == scanAssets(oldRelease, assets, i + 1) IN
              Out(rest.out, rest.dl + 1, rest.seen)

findAndCreateRelease(oldRelease, githubRelease) ==
    IF checkAssetChanged(oldRelease, githubRelease)
    THEN scanAssets(oldRelease, githubRelease.assets, 1)
    ELSE Out(oldRelease, 0, {})

\* result of updateFromGithub: Out plus at, the list position resolved as
\* the prerelease (0: none), and walked, the positions the walk visited
GOut(o, d, s, at, walked) == [out |-> o, dl |-> d, seen |-> s, at |-> at, walked |-> walked]

\* mutant: the walk does not stop at the 'latest' entry
RECURSIVE walkNoBreakFrom(_, _, _, _)
walkNoBreakFrom(ex, rem, rel, i) ==
    IF i > Len(rem.releases)
    THEN GOut(Info(rel.out, None), rel.dl, rel.seen, 0, i - 1)
    ELSE LET g == rem.releases[i] IN
         IF g.prerelease /\ ~g.draft
         THEN LET p == findAndCreateRelease(IF ex = None THEN None ELSE ex.prerelease, g) IN
              IF IsErr(p.out) THEN GOut(p.out, rel.dl + p.dl, rel.seen \cup p.seen, i, i)
              ELSE GOut(Info(rel.out, p.out), rel.dl + p.dl, rel.seen \cup p.seen, i, i)
         ELSE walkNoBreakFrom(ex, rem, rel, i + 1)

walkNoBreak(ex, rem, rel) == walkNoBreakFrom(ex, rem, rel, 1)

\* the for loop of updateFromGithub from list position i on; rel is the
\* outcome of the stable resolution
RECURSIVE walkFrom(_, _, _, _)
walkFrom(ex, rem, rel, i) ==
    IF i > Len(rem.releases)
    THEN GOut(Info(rel.out, None), rel.dl, rel.seen, 0, i - 1)
    ELSE LET g == rem.releases[i] IN
         IF g.prerelease /\ ~g.draft
         THEN LET p == findAndCreateRelease(IF ex = None THEN None ELSE ex.prerelease, g) IN
              IF IsErr(p.out) THEN GOut(p.out, rel.dl + p.dl, rel.seen \cup p.seen, i, i)
              ELSE GOut(Info(rel.out, p.out), rel.dl + p.dl, rel.seen \cup p.seen, i, i)
         ELSE IF rem.latest # None /\ g.id = rem.latest.id
              THEN GOut(Info(rel.out, None), rel.dl, rel.seen, 0, i)
         ELSE walkFrom(ex, rem, rel, i + 1)

walk(ex, rem, rel) == walkFrom(ex, rem, rel, 1)

\* mutant: the failure of getLatestRelease is not caught
updateFromGithubLatestFatal(ex, rem) ==
    IF ~rem.listOk THEN GOut(Err("listReleases failed"), 0, {}, 0, 0)
    ELSE IF rem.latest = None THEN GOut(Err("getLatestRelease failed"), 0, {}, 0, 0)
    ELSE LET rel == findAndCreateRelease(IF ex = None THEN None ELSE ex.release,
                                         rem.latest)
         IN IF IsErr(rel.out) THEN GOut(rel.out, rel.dl, rel.seen, 0, 0)
            ELSE walk(ex, rem, rel)

\* rem: listOk / releases (listReleases), latest (getLatestRelease's data,
\* None when the call throws); ex may be None (no recorded loader)
updateFromGithub(ex, rem) ==
    IF ~rem.listOk THEN GOut(Err("listReleases failed"), 0, {}, 0, 0)
    ELSE LET rel == IF rem.latest # None
                    THEN findAndCreateRelease(IF ex = None THEN None ELSE ex.release,
                                              rem.latest)
                    ELSE Out(None, 0, {})
         IN IF IsErr(rel.out) THEN GOut(rel.out, rel.dl, rel.seen, 0, 0)
            ELSE walk(ex, rem, rel)

\* ------------------------------------------------------------------------
\* src/src/main.ts
\* ------------------------------------------------------------------------
Range(q) == {q[i] : i \in 1..Len(q)}

\* addon.addon_names: None (undefined) or Names(list)
Names(list) == [tag |-> "names", list |-> list]

\* mutant: the name is pushed without the includes() test
addAddonNameAlways(addon, name) ==
    IF addon.addon_names = None
    THEN [addon EXCEPT !.addon_names = Names(<<name>>)]
    ELSE [addon EXCEPT !.addon_names = Names(Append(addon.addon_names.list, name))]

addAddonName(addon, name) ==
    IF addon.addon_names = None
    THEN [addon EXCEPT !.addon_names = Names(<<name>>)]
    ELSE IF name \notin Range(addon.addon_names.list)
         THEN [addon EXCEPT !.addon_names = Names(Append(addon.addon_names.list, name))]
    ELSE addon

\* the standalone host of the model's standalone addon: both prerelease
\* URLs are configured
StandaloneHost == [prerelease_url |-> TRUE, prerelease_version_url |-> TRUE]

\* r: the resolver's outcome for the addon; yields the addon after update(),
\* whether update() threw, and the product names the resolver parsed
applyUpdate(addon, r) ==
    IF IsErr(r.out) THEN [ok |-> FALSE, addon |-> addon, msg |-> r.out.msg, seen |-> r.seen]
    ELSE LET a1 == [addon EXCEPT !.release = r.out.release,
                                 !.prerelease = r.out.prerelease]
             a2 == IF r.out.release # None THEN addAddonName(a1, r.out.release.name) ELSE a1
             a3 == IF r.out.prerelease # None
                   THEN addAddonName(a2, r.out.prerelease.name) ELSE a2
         IN [ok |-> TRUE, addon |-> a3, msg |-> "", seen |-> r.seen]

resolve(addon, rem) ==
    IF addon.host = "github"
    THEN updateFromGithub(addon, rem)
    ELSE updateStandalone(addon, StandaloneHost, rem)

\* mutant: the addon is assigned the (absent) releases although update() threw
updateClearing(addon, rem) ==
    LET r == resolve(addon, rem) IN
    IF IsErr(r.out)
    THEN [ok |-> FALSE, addon |-> [addon EXCEPT !.release = None, !.prerelease = None],
          msg |-> r.out.msg, seen |-> r.seen]
    ELSE applyUpdate(addon, r)

update(addon, rem) == applyUpdate(addon, resolve(addon, rem))

\* mutant: any object is taken for a versioned manifest
readManifestAnyObject(json) ==
    IF json.typeof # "object" \/ json.isNull THEN Err("Invalid manifest")
    ELSE [tag |-> "data", addons |-> json.addons, loader |-> json.loader]

\* json: the parsed content of the manifest file: typeof, null, Array.isArray,
\* the keys of an object, and the addons / loader it carries
readManifest(json) ==
    IF json.typeof # "object" \/ json.isNull THEN Err("Invalid manifest")
    ELSE IF json.isArray THEN [tag |-> "data", addons |-> json.addons, loader |-> None]
    ELSE IF "version" \in json.keys
         THEN [tag |-> "data", addons |-> json.addons, loader |-> json.loader]
    ELSE Err("Invalid manifest")

\* addons.find((value) => value.package.id === id), as a position (0: none)
find(list, id) ==
    IF \E i \in 1..Len(list) : list[i].id = id
    THEN CHOOSE i \in 1..Len(list) :
             list[i].id = id /\ \A j \in 1..(i - 1) : list[j].id # id
    ELSE 0

\* mutant: an addon found in the prior catalog keeps its fresh (empty) fields
RECURSIVE mergeNoCarry(_, _, _, _)
mergeNoCarry(list, old, k, warnings) ==
    IF k > Len(old) THEN [addons |-> list, warnings |-> warnings]
    ELSE IF find(list, old[k].id) = 0
         THEN mergeNoCarry(list, old, k + 1, Append(warnings, old[k].id))
    ELSE mergeNoCarry(list, old, k + 1, warnings)

\* the merge loop of generateManifest from entry k of the prior catalog on;
\* warnings lists the ids reported by core.warning
RECURSIVE merge(_, _, _, _)
merge(list, old, k, warnings) ==
    IF k > Len(old) THEN [addons |-> list, warnings |-> warnings]
    ELSE LET f == find(list, old[k].id) IN
         IF f = 0
         THEN merge(list, old, k + 1, Append(warnings, old[k].id))
         ELSE merge([list EXCEPT ![f].release = old[k].release,
                                 ![f].prerelease = old[k].prerelease,
                                 ![f].addon_names = old[k].addon_names],
                    old, k + 1, warnings)

\* ------------------------------------------------------------------------
\* Specification SpecVersion: isGreater applied to every pair of versions
\* with components in 0..MaxComp.
\* ------------------------------------------------------------------------
Versions == [1..4 -> 0..MaxComp]

IdleVersion == va = Idle /\ vb = Idle /\ cmp = Idle
IdleDll == image = Idle /\ dllRelease = Idle
IdleArchive ==
    archive = Idle /\ arcPos = Idle /\ arcTmp = Idle /\ arcProbed = Idle /\ arcResult = Idle
IdleResolve ==
    /\ kind = Idle /\ existing = Idle /\ host = Idle /\ remote = Idle
    /\ result = Idle /\ again = Idle
IdlePass ==
    /\ pc = Idle /\ pass = Idle /\ manifestFile = Idle /\ addons = Idle /\ idx = Idle
    /\ loader = Idle /\ log = Idle /\ started = Idle /\ snap = Idle /\ emitted = Idle

InitVersion ==
    /\ va \in Versions
    /\ vb \in Versions
    /\ cmp = None
    /\ IdleDll /\ IdleArchive /\ IdleResolve /\ IdlePass

Compare ==
    /\ cmp = None
    /\ cmp' = [tag |-> "cmp", ab |-> isGreater(va, vb), ba |-> isGreater(vb, va),
               aa |-> isGreater(va, va)]
    /\ UNCHANGED <<va, vb, dllVars, archiveVars, resolveVars, passVars>>

NextVersion == Compare

SpecVersion == InitVersion /\ [][NextVersion]_vars

\* the first index at which two versions differ (0 when equal)
FirstDiff(a, b) ==
    IF a = b THEN 0 ELSE CHOOSE i \in 1..4 : a[i] # b[i] /\ \A j \in 1..(i - 1) : a[j] = b[j]

\* C10: isGreater is a strict total order on 4-component versions:
\* isGreater(a,a) is false, isGreater(a,b) excludes isGreater(b,a), for a # b
\* exactly one of the two holds, and the result is the comparison of the
\* first differing component in index order.
C10_StrictTotalOrder ==
    cmp # None =>
        /\ cmp.aa = FALSE
        /\ cmp.ab => ~cmp.ba
        /\ (va # vb) => (cmp.ab # cmp.ba)
        /\ cmp.ab = (FirstDiff(va, vb) # 0 /\ va[FirstDiff(va, vb)] > vb[FirstDiff(va, vb)])

\* C10 witness: two versions that agree on the first three components and
\* differ on the last have been compared.
C10_Witness ==
    /\ cmp # None
    /\ FirstDiff(va, vb) = 4
    /\ cmp.ab

\* ------------------------------------------------------------------------
\* Specification SpecDll: createReleaseFromDll on parsed images whose fixed
\* file info carries every combination of the DWORDs below.
\* ------------------------------------------------------------------------
\* 0xffff, the largest 16-bit half of a DWORD
MaxHalf == 65535

Halves == {0, 1, 32768, MaxHalf}

\* the DWORD with high half hi and low half lo, as ToInt32 holds it
Word(hi, lo) == IF hi >= 32768 THEN (hi - 65536) * 65536 + lo ELSE hi * 65536 + lo

Dwords == {Word(h, l) : h \in Halves, l \in Halves}
ProductDwords == {Word(0, 0), Word(0, 1), Word(MaxHalf, 32768)}

\* string tables: ProductName, FileDescription only, neither
StringTables ==
    {[ProductName |-> "A"], [FileDescription |-> "B", FileVersion |-> "v1"],
     [FileVersion |-> "v1"]}

Images ==
    [hasFixed : {TRUE}, dwFileVersionMS : Dwords, dwFileVersionLS : Dwords,
     dwProductVersionMS : ProductDwords, dwProductVersionLS : ProductDwords,
     hasStrings : {TRUE}, strings : {[ProductName |-> "A"]}]
    \cup [hasFixed : BOOLEAN, dwFileVersionMS : {Word(0, 0), Word(1, 0)},
          dwFileVersionLS : {Word(0, 0)},
          dwProductVersionMS : {Word(0, 0)}, dwProductVersionLS : {Word(0, 0), Word(0, 1)},
          hasStrings : BOOLEAN, strings : StringTables]

InitDll ==
    /\ image \in Images
    /\ dllRelease = None
    /\ IdleVersion /\ IdleArchive /\ IdleResolve /\ IdlePass

ReadDll ==
    /\ dllRelease = None
    /\ dllRelease' = createReleaseFromDll(image, "id0", "url0")
    /\ UNCHANGED <<image, versionVars, archiveVars, resolveVars, passVars>>

NextDll == ReadDll

SpecDll == InitDll /\ [][NextDll]_vars

\* the halves a DWORD of the image was built from
HalvesOf(w) == CHOOSE p \in Halves \X Halves : Word(p[1], p[2]) = w
Decoded(ms, ls) == <<HalvesOf(ms)[1], HalvesOf(ms)[2], HalvesOf(ls)[1], HalvesOf(ls)[2]>>
FileVersionOf(img) == Decoded(img.dwFileVersionMS, img.dwFileVersionLS)
ProductVersionOf(img) == Decoded(img.dwProductVersionMS, img.dwProductVersionLS)
ZeroVersion == <<0, 0, 0, 0>>
NoVersionError == Err("no addonVersion found")

\* C11: createReleaseFromDll never returns a Release whose version is
\* [0,0,0,0]: the file-version pair decoded to (MS high, MS low, LS high,
\* LS low) is used if not all zero, otherwise the product-version pair
\* decoded the same way if not all zero; with both pairs all zero the call
\* fails with 'no addonVersion found'. Every component is in 0..65535.
C11_VersionNeverZero ==
    (dllRelease # None /\ image.hasFixed) =>
        /\ IsRel(dllRelease) =>
              /\ dllRelease.version # ZeroVersion
              /\ \A i \in 1..4 : dllRelease.version[i] \in 0..MaxHalf
              /\ dllRelease.version = IF FileVersionOf(image) # ZeroVersion
                                      THEN FileVersionOf(image)
                                      ELSE ProductVersionOf(image)
        /\ (dllRelease = NoVersionError) <=>
              (FileVersionOf(image) = ZeroVersion /\ ProductVersionOf(image) = ZeroVersion)

\* C11 witness: the file-version pair is all zero, the product-version pair
\* has its sign bit set, and the Release carries the product version.
C11_Witness ==
    /\ dllRelease # None
    /\ IsRel(dllRelease)
    /\ FileVersionOf(image) = ZeroVersion
    /\ dllRelease.version = <<MaxHalf, 32768, 0, 1>>

\* ------------------------------------------------------------------------
\* Specification SpecArchive: createReleaseFromArchive on every archive of
\* at most MaxEntries entries, one await of the loop body per step.
\* ------------------------------------------------------------------------
\* version 0.0.0.1, product "A"
DllA == MkDll(0, 1, 0, 0, [ProductName |-> "A"])
\* version 0.1.0.0, product "B" (named by FileDescription only)
DllB == MkDll(1, 0, 0, 0, [FileDescription |-> "B"])
\* file version 0.0.0.0, product version 0.1.0.0, product "A"
DllA2 == MkDll(0, 0, 1, 0, [ProductName |-> "A", FileDescription |-> "B"])
\* both versions 0.0.0.0: createReleaseFromDll throws
DllBad == MkDll(0, 0, 0, 0, [ProductName |-> "A"])

ArchiveEntries ==
    [isDll : BOOLEAN, exports : {"ok", "none", "fail"}, dll : {DllA, DllBad}]

SeqsUpTo(S, n) == UNION {[1..k -> S] : k \in 0..n}

Archives == SeqsUpTo(ArchiveEntries, MaxEntries)

InitArchive ==
    /\ archive \in Archives
    /\ arcPos = 1
    /\ arcTmp = {}
    /\ arcProbed = << >>
    /\ arcResult = None
    /\ IdleVersion /\ IdleDll /\ IdleResolve /\ IdlePass

\* the entry the loop is at
Candidate == dllFiles(archive)[arcPos]

\* await using tempFile = await saveToTmp(file); arcTmp is the set of
\* temporary files on disk, named after the entry they were written for
SaveToTmp ==
    /\ arcResult = None
    /\ arcPos <= Len(dllFiles(archive))
    /\ Candidate \notin arcTmp
    /\ arcTmp' = arcTmp \cup {Candidate}
    /\ UNCHANGED <<archive, arcPos, arcProbed, arcResult, versionVars, dllVars, resolveVars, passVars>>

\* mutant: the temporary file of a skipped candidate is not removed
ProbeRejectKeepFile ==
    /\ arcResult = None
    /\ arcPos <= Len(dllFiles(archive))
    /\ Candidate \in arcTmp
    /\ ~checkDllExports(archive[Candidate])
    /\ arcProbed' = Append(arcProbed, Candidate)
    /\ arcPos' = arcPos + 1
    /\ UNCHANGED <<archive, arcTmp, arcResult, versionVars, dllVars, resolveVars, passVars>>

\* if (!checkDllExports(tempFile.filePath)) continue   -- disposes tempFile
ProbeReject ==
    /\ arcResult = None
    /\ arcPos <= Len(dllFiles(archive))
    /\ Candidate \in arcTmp
    /\ ~checkDllExports(archive[Candidate])
    /\ arcProbed' = Append(arcProbed, Candidate)
    /\ arcTmp' = arcTmp \ {Candidate}
    /\ arcPos' = arcPos + 1
    /\ UNCHANGED <<archive, arcResult, versionVars, dllVars, resolveVars, passVars>>

\* return createReleaseFromDll(subFileBuffer, id, downloadUrl)   -- disposes
\* tempFile before the call settles, whether it returns or throws
ProbeAccept ==
    /\ arcResult = None
    /\ arcPos <= Len(dllFiles(archive))
    /\ Candidate \in arcTmp
    /\ checkDllExports(archive[Candidate])
    /\ arcProbed' = Append(arcProbed, Candidate)
    /\ arcTmp' = arcTmp \ {Candidate}
    /\ arcResult' = [tag |-> "done",
                     from |-> Candidate,
                     out |-> createReleaseFromDll(archive[Candidate].dll, "id0", "url0")]
    /\ UNCHANGED <<archive, arcPos, versionVars, dllVars, resolveVars, passVars>>

\* throw new Error(`no valid release assets found in archive`)
Exhausted ==
    /\ arcResult = None
    /\ arcPos > Len(dllFiles(archive))
    /\ arcResult' = [tag |-> "done", from |-> 0, out |-> ArchiveError]
    /\ UNCHANGED <<archive, arcPos, arcTmp, arcProbed, versionVars, dllVars, resolveVars, passVars>>

NextArchive == SaveToTmp \/ ProbeReject \/ ProbeAccept \/ Exhausted

SpecArchive == InitArchive /\ [][NextArchive]_vars

\* positions of the '.dll' entries the validity predicate accepts
ValidEntries(ar) == {i \in 1..Len(ar) : ar[i].isDll /\ ar[i].exports = "ok"}
DllEntries(ar) == {i \in 1..Len(ar) : ar[i].isDll}
Least(S) == CHOOSE i \in S : \A j \in S : i <= j

\* the members of a set of positions as an increasing sequence
RECURSIVE Ascending(_)
Ascending(S) == IF S = {} THEN << >> ELSE <<Least(S)>> \o Ascending(S \ {Least(S)})

\* C9: createReleaseFromArchive probes the '.dll' entries in archive order,
\* builds its result from the first entry the validity predicate accepts,
\* probes no entry after that one, and throws 'no valid release assets found
\* in archive' exactly when no '.dll' entry passes the predicate (a failing
\* predicate invocation counts as invalid).
C9_FirstValidEntry ==
    /\ \A k \in 1..Len(arcProbed) :
          /\ arcProbed[k] = Ascending(DllEntries(archive))[k]
          /\ \A i \in ValidEntries(archive) : arcProbed[k] <= i
    /\ arcResult # None =>
          /\ (arcResult.out = ArchiveError) <=> (ValidEntries(archive) = {})
          /\ ValidEntries(archive) = {} => arcProbed = Ascending(DllEntries(archive))
          /\ ValidEntries(archive) # {} =>
                /\ arcResult.from = Least(ValidEntries(archive))
                /\ arcResult.out = createReleaseFromDll(
                       archive[Least(ValidEntries(archive))].dll, "id0", "url0")
                /\ arcProbed[Len(arcProbed)] = Least(ValidEntries(archive))
          /\ arcResult.out = createReleaseFromArchive(archive, "id0", "url0")

\* C9 witness: three '.dll' candidates of which only the second passes the
\* predicate (the first one's invocation failed); the release was built from
\* the second and the third was never probed.
C9_Witness ==
    /\ arcResult # None
    /\ Len(archive) = 3
    /\ DllEntries(archive) = {1, 2, 3}
    /\ archive[1].exports = "fail"
    /\ ValidEntries(archive) = {2, 3}
    /\ IsRel(arcResult.out)
    /\ arcProbed = <<1, 2>>

\* C15: during createReleaseFromArchive at most one temporary probe file
\* exists at any time, the one of the candidate being probed: a candidate's
\* file is removed before the next one is written, and on every exit of the
\* call (candidate accepted and returned, createReleaseFromDll throwing on
\* the accepted candidate, no candidate accepted) no temporary file remains.
C15_TempFileScoped ==
    /\ Cardinality(arcTmp) <= 1
    /\ arcTmp # {} => (arcPos <= Len(dllFiles(archive)) /\ arcTmp = {Candidate})
    /\ arcResult # None => arcTmp = {}

\* C15 witness: two candidates were probed, the first skipped, the second
\* accepted; createReleaseFromDll threw on it and no temporary file is left.
C15_Witness ==
    /\ arcResult # None
    /\ arcProbed = <<1, 2>>
    /\ arcResult.from = 2
    /\ arcResult.out = Err("no addonVersion found")
    /\ arcTmp = {}

\* ------------------------------------------------------------------------
\* Specification SpecResolve: one call of a resolver on every combination
\* of a recorded state and a remote state drawn from the sets below.
\*   kind "check":      downloadAndCheckVersion(existing, remote)
\*   kind "find":       findAndCreateRelease(existing, remote)
\*   kind "standalone": updateStandalone(existing, host, remote)
\*   kind "github":     updateFromGithub(existing, remote)
\* ------------------------------------------------------------------------
\* an archive whose second '.dll' entry is the first valid one
ZipB == << [isDll |-> FALSE, exports |-> "ok", dll |-> DllA],
           [isDll |-> TRUE, exports |-> "none", dll |-> DllA],
           [isDll |-> TRUE, exports |-> "ok", dll |-> DllB] >>

Bodies == {"1.0", "1.1"}
Url(chan, ext) == "https://host/" \o chan \o "." \o ext

Files(chan) ==
    {[ok |-> FALSE, ext |-> "dll", bin |-> DllA, url |-> Url(chan, "dll")]}
    \cup {[ok |-> TRUE, ext |-> "dll", bin |-> d, url |-> Url(chan, "dll")] :
             d \in {DllA, DllB, DllBad}}
    \cup {[ok |-> TRUE, ext |-> "zip", bin |-> ZipB, url |-> Url(chan, "zip")],
          [ok |-> TRUE, ext |-> "exe", bin |-> DllA, url |-> Url(chan, "exe")]}

Channels(chan) ==
    {[versionOk |-> FALSE, body |-> "", file |-> f] :
        f \in {[ok |-> FALSE, ext |-> "dll", bin |-> DllA, url |-> Url(chan, "dll")]}}
    \cup [versionOk : {TRUE}, body : Bodies, file : Files(chan)]

\* releases a standalone channel can have recorded
StandaloneReleases(chan) ==
    {createReleaseFromDll(d, sha256(b), Url(chan, "dll")) : d \in {DllA, DllB}, b \in Bodies}

StandaloneHosts == [prerelease_url : BOOLEAN, prerelease_version_url : BOOLEAN]

AssetIds == 1..MaxAssets
AssetUrl == "https://github/asset"

\* releases a hosted channel can have recorded, by recorded asset_index
GithubReleases(indexes) ==
    {[createReleaseFromDll(d, ToString(a), AssetUrl) EXCEPT !.asset_index = k] :
        d \in {DllA, DllB}, a \in AssetIds, k \in indexes}

DllAssets ==
    [id : AssetIds, ok : {TRUE}, ext : {"dll"}, bin : {DllA, DllB}, url : {AssetUrl}]

Assets ==
    DllAssets
    \cup [id : AssetIds, ok : {TRUE}, ext : {"dll"}, bin : {DllBad}, url : {AssetUrl}]
    \cup [id : AssetIds, ok : {TRUE}, ext : {"zip"}, bin : {ZipB}, url : {AssetUrl}]
    \cup [id : AssetIds, ok : {TRUE}, ext : {"txt"}, bin : {DllA}, url : {AssetUrl}]
    \cup [id : AssetIds, ok : {FALSE}, ext : {"dll"}, bin : {DllA}, url : {AssetUrl}]

\* the asset list of entry k of the release list: one '.dll' asset with id k
\* (asset ids are unique across a repository)
EntryAssets(k) ==
    {<<[id |-> k, ok |-> TRUE, ext |-> "dll", bin |-> d, url |-> AssetUrl]>> :
        d \in {DllA, DllB}}

\* one entry of the release list: entry k of a list carries id k
Entries(k) ==
    [id : {k}, prerelease : BOOLEAN, draft : BOOLEAN, assets : EntryAssets(k)]

RECURSIVE ReleaseLists(_)
ReleaseLists(n) ==
    IF n = 0 THEN {<< >>}
    ELSE LET shorter == ReleaseLists(n - 1) IN
         shorter \cup {Append(l, e) : l \in {x \in shorter : Len(x) = n - 1},
                                      e \in Entries(n)}

\* what getLatestRelease can answer for a list: nothing (it throws), a
\* published stable entry of the list, or one the (paginated) list lacks
Latests(l) ==
    {None}
    \cup {l[i] : i \in {j \in 1..Len(l) : ~l[j].prerelease /\ ~l[j].draft}}
    \cup [id : {0}, prerelease : {FALSE}, draft : {FALSE}, assets : EntryAssets(0)]

GithubRemotes(n) ==
    UNION {{[listOk |-> TRUE, releases |-> l, latest |-> lt] : lt \in Latests(l)} :
              l \in ReleaseLists(n)}
    \cup {[listOk |-> FALSE, releases |-> << >>, latest |-> None]}

\* the remote state r in which the release with id i has no assets, in the
\* list and as the 'latest' answer alike
BreakId(r, i) ==
    [r EXCEPT !.releases = [k \in DOMAIN r.releases |->
                               IF r.releases[k].id = i
                               THEN [r.releases[k] EXCEPT !.assets = << >>]
                               ELSE r.releases[k]],
              !.latest = IF r.latest # None /\ r.latest.id = i
                         THEN [r.latest EXCEPT !.assets = << >>]
                         ELSE r.latest]

\* repositories with a release that has no asset to resolve
BrokenRemotes == {BreakId(r, i) : r \in GithubRemotes(1), i \in 0..1} \ GithubRemotes(1)

Optional(S) == {None} \cup S

InitResolve ==
    /\ \/ /\ kind = "check"
          /\ existing \in Optional(StandaloneReleases("addon"))
          /\ host = None
          /\ remote \in Channels("addon")
       \/ /\ kind = "find"
          /\ existing \in Optional(GithubReleases({NoIndex} \cup (0..(MaxAssets - 1))))
          /\ host = None
          /\ remote \in [id : {1}, prerelease : {FALSE}, draft : {FALSE},
                         assets : SeqsUpTo(Assets, MaxAssets)]
       \/ /\ kind = "standalone"
          /\ existing \in [tag : {"info"},
                           release : Optional(StandaloneReleases("addon")),
                           prerelease : Optional(StandaloneReleases("pre"))]
          /\ host \in StandaloneHosts
          /\ remote \in [stable : Channels("addon"), pre : Channels("pre")]
       \/ /\ kind = "github"
          /\ existing \in Optional([tag : {"info"},
                                    release : Optional(GithubReleases({0})),
                                    prerelease : Optional(GithubReleases({0}))])
          /\ host = None
          /\ remote \in GithubRemotes(MaxReleases) \cup BrokenRemotes
    /\ result = None
    /\ again = None
    /\ IdleVersion /\ IdleDll /\ IdleArchive /\ IdlePass

ResolveCheck ==
    /\ kind = "check" /\ result = None
    /\ result' = downloadAndCheckVersion(existing, remote)
    /\ UNCHANGED <<kind, existing, host, remote, again, versionVars, dllVars, archiveVars, passVars>>

ResolveFind ==
    /\ kind = "find" /\ result = None
    /\ result' = findAndCreateRelease(existing, remote)
    /\ UNCHANGED <<kind, existing, host, remote, again, versionVars, dllVars, archiveVars, passVars>>

ResolveStandalone ==
    /\ kind = "standalone" /\ result = None
    /\ result' = updateStandalone(existing, host, remote)
    /\ UNCHANGED <<kind, existing, host, remote, again, versionVars, dllVars, archiveVars, passVars>>

ResolveGithub ==
    /\ kind = "github" /\ result = None
    /\ result' = updateFromGithub(existing, remote)
    /\ UNCHANGED <<kind, existing, host, remote, again, versionVars, dllVars, archiveVars, passVars>>

\* the next pass over the same addon: the resolver is called again with the
\* ReleaseInfo it returned as existing, against the same remote state
AgainStandalone ==
    /\ kind = "standalone" /\ result # None /\ again = None
    /\ ~IsErr(result.out)
    /\ again' = updateStandalone(result.out, host, remote)
    /\ UNCHANGED <<kind, existing, host, remote, result, versionVars, dllVars, archiveVars, passVars>>

AgainGithub ==
    /\ kind = "github" /\ result # None /\ again = None
    /\ ~IsErr(result.out)
    /\ again' = updateFromGithub(result.out, remote)
    /\ UNCHANGED <<kind, existing, host, remote, result, versionVars, dllVars, archiveVars, passVars>>

NextResolve ==
    \/ ResolveCheck \/ ResolveFind \/ ResolveStandalone \/ ResolveGithub
    \/ AgainStandalone \/ AgainGithub

SpecResolve == InitResolve /\ [][NextResolve]_vars

\* "change was detected" for the recorded release `existing` of a channel:
\* standalone, the hash of the version response differs from its id;
\* hosted, no asset_index is recorded or the asset at the recorded index is
\* missing or has another id.
C2_Changed ==
    IF kind = "check"
    THEN ~remote.versionOk \/ existing.id # sha256(remote.body)
    ELSE \/ existing.asset_index = NoIndex
         \/ existing.asset_index >= Len(remote.assets)
         \/ ToString(remote.assets[existing.asset_index + 1].id) # existing.id

\* C2: with a recorded release, downloadAndCheckVersion and
\* findAndCreateRelease return the recorded release unmodified unless change
\* was detected and the newly extracted version is strictly greater than the
\* recorded one; without change no binary is downloaded.
C2_KeepUnlessNewer ==
    (kind \in {"check", "find"} /\ result # None /\ existing # None) =>
        /\ ~C2_Changed => (result.dl = 0 /\ result.out = existing)
        /\ (~IsErr(result.out) /\ result.out # existing) =>
              /\ C2_Changed
              /\ IsRel(result.out)
              /\ isGreater(result.out.version, existing.version)
              /\ result.dl >= 1

\* C2 witness: the version response of a standalone channel changed, the
\* binary was downloaded, its version was not greater and the recorded
\* release came back.
C2_Witness ==
    /\ kind = "check" /\ result # None /\ existing # None
    /\ C2_Changed
    /\ result.dl = 1
    /\ result.out = existing

\* C3: every ReleaseInfo a resolver returns with both a release and a
\* prerelease has isGreater(prerelease.version, release.version).
C3_PrereleaseGreater ==
    (kind \in {"standalone", "github"} /\ result # None /\ ~IsErr(result.out)
       /\ result.out.release # None /\ result.out.prerelease # None) =>
        isGreater(result.out.prerelease.version, result.out.release.version)

\* C3 for the standalone resolver alone
C3_StandaloneOnly ==
    (kind = "standalone" /\ result # None /\ ~IsErr(result.out)
       /\ result.out.release # None /\ result.out.prerelease # None) =>
        isGreater(result.out.prerelease.version, result.out.release.version)

\* positions of the release list at which the walk of updateFromGithub stops
IsPre(i) == remote.releases[i].prerelease /\ ~remote.releases[i].draft
IsLatest(i) == remote.latest # None /\ remote.releases[i].id = remote.latest.id
StopAt == {i \in 1..Len(remote.releases) : IsPre(i) \/ IsLatest(i)}

\* C5: the walk over the release list ends at the first entry that is a
\* non-draft prerelease (resolved and returned) or at the entry carrying
\* the id of 'latest' (no prerelease returned); no entry after the 'latest'
\* entry is ever resolved as a prerelease.
C5_WalkStopsAtLatest ==
    (kind = "github" /\ result # None) =>
        /\ result.at # 0 =>
              /\ IsPre(result.at)
              /\ \A j \in 1..(result.at - 1) : ~IsPre(j) /\ ~IsLatest(j)
        /\ \A i, j \in 1..Len(remote.releases) : (IsLatest(i) /\ i < j) => result.at # j
        /\ ~(IsErr(result.out) /\ result.at = 0) =>
              /\ result.walked = IF StopAt = {} THEN Len(remote.releases) ELSE Least(StopAt)
              /\ (result.at # 0) <=> (StopAt # {} /\ IsPre(Least(StopAt)))
        /\ ~IsErr(result.out) => ((result.out.prerelease # None) <=> (result.at # 0))

\* C5 witness: the list is <<latest, non-draft prerelease>>; the walk ended
\* at the first entry and nothing was resolved as a prerelease.
C5_Witness ==
    /\ kind = "github" /\ result # None /\ ~IsErr(result.out)
    /\ Len(remote.releases) = 2
    /\ IsLatest(1) /\ IsPre(2)
    /\ result.walked = 1
    /\ result.out.release # None
    /\ result.out.prerelease = None

\* the recorded release / prerelease handed to findAndCreateRelease
ExistingRelease == IF existing = None THEN None ELSE existing.release
ExistingPrerelease == IF existing = None THEN None ELSE existing.prerelease

\* the stable resolution of updateFromGithub on its own
StableOutcome ==
    IF remote.latest = None THEN None
    ELSE findAndCreateRelease(ExistingRelease, remote.latest).out

\* the prerelease resolution of updateFromGithub on its own, for the entry
\* the walk stops at
PrereleaseOutcome ==
    findAndCreateRelease(ExistingPrerelease, remote.releases[Least(StopAt)]).out

HasPrereleaseEntry == StopAt # {} /\ IsPre(Least(StopAt))

\* C12: in updateFromGithub a failure while resolving the stable release does
\* not prevent the prerelease entry from being attempted, and a failure
\* while resolving the prerelease does not discard the stable release
\* resolved in the same call.
C12_ChannelsIndependent ==
    (kind = "github" /\ result # None /\ remote.listOk /\ HasPrereleaseEntry) =>
        /\ IsErr(StableOutcome) => result.at # 0
        /\ (IsRel(StableOutcome) /\ IsErr(PrereleaseOutcome)) =>
              /\ ~IsErr(result.out)
              /\ result.out.release = StableOutcome

\* C12 as the resolver has it: a failed 'latest' lookup is the one stable
\* failure that leaves the prerelease entry attempted (the release is then
\* absent); a failure of findAndCreateRelease on the stable release ends the
\* call before the walk, and one on the prerelease entry ends the call with
\* that failure, no ReleaseInfo being returned.
C12_FailureEndsResolution ==
    (kind = "github" /\ result # None /\ remote.listOk) =>
        /\ (remote.latest = None /\ HasPrereleaseEntry) =>
              /\ result.at = Least(StopAt)
              /\ ~IsErr(PrereleaseOutcome) =>
                    result.out = Info(None, PrereleaseOutcome)
        /\ IsErr(StableOutcome) => (result.out = StableOutcome /\ result.at = 0)
        /\ (~IsErr(StableOutcome) /\ HasPrereleaseEntry /\ IsErr(PrereleaseOutcome)) =>
              result.out = PrereleaseOutcome

\* C12 witness: getLatestRelease threw, the list holds a non-draft
\* prerelease, and it was resolved and returned without a release.
C12_Witness ==
    /\ kind = "github" /\ result # None
    /\ remote.listOk /\ remote.latest = None
    /\ HasPrereleaseEntry
    /\ ~IsErr(result.out)
    /\ IsRel(result.out.prerelease)
    /\ result.out.release = None

\* the two channels of updateStandalone on their own
StableChannel == downloadAndCheckVersion(existing.release, remote.stable)
PrereleaseChannel == downloadAndCheckVersion(existing.prerelease, remote.pre)
PrereleaseConfigured == host.prerelease_url /\ host.prerelease_version_url

\* C13: updateStandalone resolves the stable channel first; the prerelease
\* channel is resolved only if both prerelease URLs are configured and a
\* stable release resulted; the returned ReleaseInfo has no prerelease
\* whenever the channel is not configured or the resolved prerelease is not
\* strictly greater than the resolved release, whatever prerelease was
\* recorded.
C13_PrereleaseDropped ==
    (kind = "standalone" /\ result # None) =>
        /\ IsErr(StableChannel.out) => result = StableChannel
        /\ (~IsErr(StableChannel.out) /\ ~PrereleaseConfigured) =>
              result = Out(Info(StableChannel.out, None), StableChannel.dl,
                           StableChannel.seen)
        /\ (~IsErr(StableChannel.out) /\ PrereleaseConfigured) =>
              /\ IsRel(StableChannel.out)
              /\ result.dl = StableChannel.dl + PrereleaseChannel.dl
              /\ IsErr(PrereleaseChannel.out) => result.out = PrereleaseChannel.out
              /\ ~IsErr(PrereleaseChannel.out) =>
                    /\ result.out.release = StableChannel.out
                    /\ result.out.prerelease =
                          IF isGreater(PrereleaseChannel.out.version,
                                       StableChannel.out.version)
                          THEN PrereleaseChannel.out ELSE None

\* C13 witness: the record had a prerelease, the channel is configured and
\* answered, the resolved prerelease is not newer than the resolved release,
\* and the returned ReleaseInfo has none.
C13_Witness ==
    /\ kind = "standalone" /\ result # None
    /\ existing.prerelease # None
    /\ PrereleaseConfigured
    /\ ~IsErr(result.out)
    /\ IsRel(PrereleaseChannel.out)
    /\ result.out.release # None
    /\ result.out.prerelease = None

\* what the asset at position i of the remote entry gives when downloaded
Yield(i) == downloadFromGithub(remote.assets[i])
NoValidAsset == Err("no valid release asset found")

\* positions whose asset yields a Release / is not skipped (yields or throws)
Yielding == {i \in 1..Len(remote.assets) : IsRel(Yield(i))}
NotSkipped == {i \in 1..Len(remote.assets) : Yield(i) # None}

\* the Release findAndCreateRelease makes of the asset at position i
ReleaseAt(i) == [Yield(i) EXCEPT !.asset_index = i - 1]

\* C14: in findAndCreateRelease, when change is detected, the assets are
\* scanned in listed order, an asset that is neither '.dll' nor '.zip' is
\* skipped, the scan goes on until one asset yields a Release, which gets
\* the asset's position as asset_index and the asset's id as id, and the
\* call fails with 'no valid release asset found' exactly when no asset of
\* the list yields a Release.
C14_ScanUntilRelease ==
    (kind = "find" /\ result # None /\ checkAssetChanged(existing, remote)) =>
        /\ (result.out = NoValidAsset) <=> (Yielding = {})
        /\ Yielding # {} =>
              /\ result.dl = Least(Yielding)
              /\ result.seen = {ReleaseAt(Least(Yielding)).name}

\* C14 as the scan has it: it stops at the first asset that is not skipped;
\* a Release from that asset gets the asset's position and id (and is
\* returned if newer than the recorded one), a failure of that asset ends
\* the call with that failure, and 'no valid release asset found' is thrown
\* exactly when every asset was skipped.
C14_ScanUntilNotSkipped ==
    (kind = "find" /\ result # None /\ checkAssetChanged(existing, remote)) =>
        /\ (result.out = NoValidAsset) <=> (NotSkipped = {})
        /\ NotSkipped = {} => result.dl = Len(remote.assets)
        /\ NotSkipped # {} =>
              LET f == Least(NotSkipped) IN
              /\ result.dl = f
              /\ IsErr(Yield(f)) => result.out = Yield(f)
              /\ IsRel(Yield(f)) =>
                    /\ ReleaseAt(f).id = ToString(remote.assets[f].id)
                    /\ result.seen = {ReleaseAt(f).name}
                    /\ result.out =
                          IF existing = None
                             \/ isGreater(ReleaseAt(f).version, existing.version)
                          THEN ReleaseAt(f) ELSE existing

\* C14 witness: the first asset is neither '.dll' nor '.zip', the second
\* yields a Release, which is returned with asset_index 1.
C14_Witness ==
    /\ kind = "find" /\ result # None
    /\ Len(remote.assets) = 2
    /\ Yield(1) = None
    /\ IsRel(result.out)
    /\ result.out.asset_index = 1
    /\ result.out.id = ToString(remote.assets[2].id)
    /\ result.dl = 2

\* two optional releases agree in presence, id, version and asset_index
SameRelease(a, b) ==
    IF a = None \/ b = None THEN a = b
    ELSE a.id = b.id /\ a.version = b.version /\ a.asset_index = b.asset_index

\* C16: resolution is idempotent against an unchanged remote: when
\* updateStandalone or updateFromGithub returned ReleaseInfo R, the same
\* resolver run again with existing = R and the same remote responses
\* returns a ReleaseInfo equal to R in release and prerelease.
C16_Idempotent ==
    again # None =>
        /\ ~IsErr(again.out)
        /\ SameRelease(again.out.release, result.out.release)
        /\ SameRelease(again.out.prerelease, result.out.prerelease)

\* the second run gave what the first run returned
SameInfo ==
    /\ ~IsErr(again.out)
    /\ SameRelease(again.out.release, result.out.release)
    /\ SameRelease(again.out.prerelease, result.out.prerelease)

\* the first run of updateStandalone dropped a recorded prerelease without
\* downloading the binary: its id is the hash of the current version response
DroppedUnseen ==
    /\ kind = "standalone"
    /\ PrereleaseConfigured
    /\ existing.prerelease # None
    /\ result.out.prerelease = None
    /\ remote.pre.versionOk
    /\ existing.prerelease.id = sha256(remote.pre.body)

\* the binary the prerelease channel serves is the one the recorded
\* prerelease was made from (same version)
RecordMatchesBinary ==
    LET c == createRelease(remote.pre.file, existing.prerelease.id).out IN
    IsRel(c) /\ c.version = existing.prerelease.version

\* C16 as the resolvers have it: updateFromGithub is idempotent against an
\* unchanged remote; updateStandalone is too, unless the first run dropped a
\* recorded prerelease whose id matches the current version response while
\* the binary served is not the one recorded.
C16_IdempotentUnlessDropped ==
    again # None =>
        \/ SameInfo
        \/ DroppedUnseen /\ ~RecordMatchesBinary

\* C16 witness: the first run replaced the recorded prerelease of a
\* standalone addon by a newer one it downloaded; the second run downloaded
\* nothing and returned the same release and prerelease.
C16_Witness ==
    /\ kind = "standalone" /\ again # None
    /\ existing.release # None /\ existing.prerelease # None
    /\ IsRel(result.out.prerelease)
    /\ result.out.prerelease # existing.prerelease
    /\ result.dl >= 1
    /\ again.dl = 0
    /\ SameInfo

\* ------------------------------------------------------------------------
\* Specification Spec: any number of consecutive runs of the action over the
\* addon definitions "g" (hosted) and "s" (standalone); each run reads the
\* manifest file the previous one wrote. The inputs of the action
\* (manifest_path, loader_repository) are those of the workflow and stay the
\* same from run to run; the addons directory may change between runs.
\* ------------------------------------------------------------------------
HostOf(id) == IF id = "g" THEN "github" ELSE "standalone"

\* addonConfig.parse(toml.parse(...)): a definition carries no release yet
Config(id) ==
    [id |-> id, host |-> HostOf(id), release |-> None, prerelease |-> None,
     addon_names |-> None]

\* the addon definitions a run can find in the addons directory
DefSets == {<< >>, <<Config("g")>>, <<Config("s")>>, <<Config("g"), Config("s")>>}

\* content of the manifest file
FileAbsent == [tag |-> "absent"]
File(json) == [tag |-> "file", json |-> json]
JArray(list) ==
    [typeof |-> "object", isNull |-> FALSE, isArray |-> TRUE, keys |-> {},
     addons |-> list, loader |-> None]
JVersioned(list, ldr) ==
    [typeof |-> "object", isNull |-> FALSE, isArray |-> FALSE, keys |-> {"version", "data"},
     addons |-> list, loader |-> ldr]
JObject(list) ==
    [typeof |-> "object", isNull |-> FALSE, isArray |-> FALSE, keys |-> {"addons"},
     addons |-> list, loader |-> None]
JNull ==
    [typeof |-> "object", isNull |-> TRUE, isArray |-> FALSE, keys |-> {},
     addons |-> << >>, loader |-> None]
JScalar(t) ==
    [typeof |-> t, isNull |-> FALSE, isArray |-> FALSE, keys |-> {},
     addons |-> << >>, loader |-> None]

\* catalog entries earlier runs can have written
OldG ==
    [Config("g") EXCEPT
        !.release = [createReleaseFromDll(DllB, "1", AssetUrl) EXCEPT !.asset_index = 0],
        !.addon_names = Names(<<"B">>)]
LegacyG ==
    [Config("g") EXCEPT !.release = createReleaseFromDll(DllA, "1", AssetUrl)]
OldS ==
    [Config("s") EXCEPT
        !.release = createReleaseFromDll(DllA, sha256("1.0"), Url("addon", "dll")),
        !.prerelease = createReleaseFromDll(DllB, sha256("1.1"), Url("pre", "dll")),
        !.addon_names = Names(<<"A", "B">>)]

InitFiles ==
    {FileAbsent, File(JNull), File(JScalar("number")), File(JScalar("string")),
     File(JObject(<<OldG>>)),
     File(JArray(<< >>)), File(JArray(<<LegacyG>>)), File(JArray(<<OldS, LegacyG>>)),
     File(JVersioned(<<OldG>>, None)), File(JVersioned(<<OldS>>, Info(None, None))),
     File(JVersioned(<<OldG, OldS>>, Info(None, None)))}

Rejected(m) == [tag |-> "rejected", msg |-> m]
NoLog == [warnings |-> << >>, errors |-> << >>, updates |-> << >>, seen |-> {}]

\* remote states of a standalone channel during a run: the version request
\* fails, or build 1.0 is DllA, or build 1.1 is DllB
PassChannels(chan) ==
    {c \in Channels(chan) : ~c.versionOk}
    \cup {c \in Channels(chan) :
             /\ c.versionOk /\ c.file.ok /\ c.file.ext = "dll"
             /\ <<c.body, c.file.bin>> \in {<<"1.0", DllA>>, <<"1.1", DllB>>}}
PassGithubRemotes == GithubRemotes(PassReleases)
PassStandaloneRemotes == [stable : PassChannels("addon"), pre : PassChannels("pre")]
PassRemotes(addon) ==
    IF addon.host = "github" THEN PassGithubRemotes ELSE PassStandaloneRemotes

\* remote states of the loader repository during a run: it has no published
\* release, or listReleases fails
LoaderRemotes == {r \in GithubRemotes(0) : r.latest = None}

Init ==
    /\ pc = "idle"
    /\ pass \in [manifestPath : {"undefined", "", "path"}, loaderRepo : BOOLEAN,
                 stage : {"none"}]
    /\ manifestFile \in InitFiles
    /\ addons = << >>
    /\ idx = 0
    /\ loader = Info(None, None)
    /\ log = NoLog
    /\ started = 0
    /\ snap = << >>
    /\ emitted = None
    /\ IdleVersion /\ IdleDll /\ IdleArchive /\ IdleResolve

\* generateManifest up to the update loop (main.ts 95-174); run() catches a
\* rejection (main.ts 78-83)
GenerateStart ==
    /\ pc = "idle"
    /\ \E dirExists \in BOOLEAN, tomlValid \in BOOLEAN, defs \in DefSets :
          LET manifestPath == pass.manifestPath
              reads == manifestPath = "path" /\ manifestFile # FileAbsent
              existingManifest == IF reads THEN readManifest(manifestFile.json) ELSE None
              stage == IF ~dirExists THEN "nodir"
                       ELSE IF manifestPath = "" THEN "badpath"
                       ELSE IF ~tomlValid THEN "validation"
                       ELSE IF reads THEN "read" ELSE "noread"
              msg == IF ~dirExists THEN "Addon directory does not exist"
                     ELSE IF manifestPath = ""
                          THEN "Invalid manifest path. Set to undefined to output to STDOUT."
                     ELSE IF ~tomlValid THEN "Validation of some addons failed"
                     ELSE IF IsErr(existingManifest) THEN existingManifest.msg
                     ELSE ""
              merged == IF msg = "" /\ existingManifest # None
                        THEN merge(defs, existingManifest.addons, 1, << >>)
                        ELSE [addons |-> defs, warnings |-> << >>]
          IN /\ pass' = [pass EXCEPT !.stage = stage]
             /\ log' = [NoLog EXCEPT !.warnings = IF msg = "" THEN merged.warnings ELSE << >>]
             /\ started' = 0
             /\ IF msg # ""
                THEN /\ pc' = "idle"
                     /\ emitted' = Rejected(msg)
                     /\ addons' = << >> /\ snap' = << >> /\ idx' = 0
                ELSE /\ pc' = "update"
                     /\ emitted' = None
                     /\ addons' = merged.addons
                     /\ snap' = merged.addons
                     /\ idx' = 1
    /\ UNCHANGED <<manifestFile, loader, versionVars, dllVars, archiveVars, resolveVars>>

\* one iteration of the update loop (main.ts 177-192) with update() (29-47)
UpdateAddon ==
    /\ pc = "update"
    /\ idx <= Len(addons)
    /\ \E rem \in PassRemotes(addons[idx]) :
          LET u == update(addons[idx], rem) IN
          /\ addons' = [addons EXCEPT ![idx] = u.addon]
          /\ log' = [log EXCEPT
                        !.updates = Append(@, addons[idx].id),
                        !.errors = IF u.ok THEN @ ELSE Append(@, addons[idx].id),
                        !.seen = u.seen]
    /\ started' = started + 1
    /\ idx' = idx + 1
    /\ UNCHANGED <<pc, pass, manifestFile, loader, snap, emitted,
                   versionVars, dllVars, archiveVars, resolveVars>>

\* the loader update and the returned manifest (main.ts 194-217)
UpdateLoader ==
    /\ pc = "update"
    /\ idx > Len(addons)
    /\ \E rem \in LoaderRemotes :
          LET loaderRepo == pass.loaderRepo
              existingLoader == IF pass.stage = "read"
                                THEN readManifest(manifestFile.json).loader ELSE None
              dflt == IF existingLoader = None THEN Info(None, None) ELSE existingLoader
              r == updateFromGithub(existingLoader, rem)
              new == IF loaderRepo /\ ~IsErr(r.out) THEN r.out ELSE dflt
          IN /\ loader' = new
             /\ started' = started + (IF loaderRepo THEN 1 ELSE 0)
             /\ emitted' = [tag |-> "manifest", version |-> 1, addons |-> addons,
                            loader |-> new]
    /\ pc' = "return"
    /\ UNCHANGED <<pass, manifestFile, addons, idx, log, snap,
                   versionVars, dllVars, archiveVars, resolveVars>>

\* run() writes the manifest to manifestPath or prints it (main.ts 72-77) and
\* returns: the locals of generateManifest are gone
WriteManifest ==
    /\ pc = "return"
    /\ manifestFile' = IF pass.manifestPath = "path"
                       THEN File(JVersioned(emitted.addons, emitted.loader))
                       ELSE manifestFile
    /\ pc' = "idle"
    /\ pass' = [pass EXCEPT !.stage = "none"]
    /\ addons' = << >> /\ snap' = << >> /\ idx' = 0
    /\ log' = NoLog /\ started' = 0
    /\ loader' = Info(None, None)
    /\ emitted' = None
    /\ UNCHANGED <<versionVars, dllVars, archiveVars, resolveVars>>

Next == GenerateStart \/ UpdateAddon \/ UpdateLoader \/ WriteManifest

Spec == Init /\ [][Next]_vars

\* ids of a list of addons, in order
Ids(list) == [i \in 1..Len(list) |-> list[i].id]
NoDuplicates(q) == \A i, j \in 1..Len(q) : q[i] = q[j] => i = j
Fields(a) == <<a.release, a.prerelease, a.addon_names>>
\* positions of the addons whose update() has finished in the current run
Updated == {i \in 1..Len(addons) : i < idx}
Failed(i) == addons[i].id \in Range(log.errors)

\* C1: when update(addon) throws, the failure is reported once via
\* core.error, the addon's release, prerelease and addon_names are what they
\* were before its update started, every other addon is still updated, and
\* the emitted catalog has one entry for every addon of the definition set.
C1_FailureIsolated ==
    /\ log.updates = [i \in 1..Cardinality(Updated) |-> addons[i].id]
    /\ NoDuplicates(log.errors)
    /\ Range(log.errors) \subseteq Range(log.updates)
    /\ \A i \in Updated : Failed(i) => Fields(addons[i]) = Fields(snap[i])
    /\ \A i \in 1..Len(addons) : i \notin Updated => addons[i] = snap[i]
    /\ pc = "return" =>
          /\ log.updates = Ids(snap)
          /\ emitted.tag = "manifest"
          /\ Ids(emitted.addons) = Ids(snap)
          /\ \A i \in 1..Len(addons) : Failed(i) => Fields(emitted.addons[i]) = Fields(snap[i])

\* C1 witness: of two addons the first failed and kept its recorded release,
\* the second was updated to something new, and the manifest was returned.
C1_Witness ==
    /\ pc = "return"
    /\ Len(addons) = 2
    /\ log.errors = <<addons[1].id>>
    /\ snap[1].release # None
    /\ Fields(addons[1]) = Fields(snap[1])
    /\ addons[2].release # None
    /\ addons[2].release # snap[2].release

\* C4: for an addon of the definition set with a stable release recorded
\* before the run, after its update a stable release is still recorded and
\* it is the prior one or one with a strictly greater version.
C4_StableNeverLost ==
    \A i \in Updated :
        snap[i].release # None =>
            /\ addons[i].release # None
            /\ \/ addons[i].release = snap[i].release
               \/ isGreater(addons[i].release.version, snap[i].release.version)

\* "neither an array nor an object with a 'version' key"
InvalidShape(json) ==
    \/ json.typeof # "object"
    \/ json.isNull
    \/ (~json.isArray /\ "version" \notin json.keys)

\* the prior catalog the current run read (manifestFile is rewritten only
\* by WriteManifest)
PriorRead == pass.stage = "read" /\ pc \in {"update", "return"}
Prior == manifestFile.json.addons
Occurrences(q, x) == Cardinality({k \in 1..Len(q) : q[k] = x})

\* C6: merging a prior catalog (legacy array or versioned), every addon id
\* of the prior catalog that is not in the definition set is warned about
\* exactly once and is not in the emitted addons; every addon in both has
\* the prior entry's release, prerelease and addon_names before any update.
C6_MergePriorCatalog ==
    PriorRead =>
        /\ \A k \in 1..Len(Prior) :
              Occurrences(log.warnings, Prior[k].id)
                  = IF Prior[k].id \in Range(Ids(snap)) THEN 0 ELSE 1
        /\ Range(log.warnings) \subseteq Range(Ids(Prior))
        /\ \A i \in 1..Len(snap) :
              IF snap[i].id \in Range(Ids(Prior))
              THEN \E k \in 1..Len(Prior) :
                      Prior[k].id = snap[i].id /\ Fields(snap[i]) = Fields(Prior[k])
              ELSE Fields(snap[i]) = <<None, None, None>>
        /\ pc = "return" =>
              \A w \in Range(log.warnings) : w \notin Range(Ids(emitted.addons))

\* C6 witness: a legacy bare-array catalog with two entries was merged into
\* a definition set holding one of them; the other was warned about, the kept
\* one carries the prior release, and the manifest was returned.
C6_Witness ==
    /\ PriorRead /\ pc = "return"
    /\ manifestFile.json.isArray
    /\ Len(Prior) = 2
    /\ Len(log.warnings) = 1
    /\ Len(snap) = 1
    /\ snap[1].release # None

\* C7: a manifest file whose JSON is neither an array nor an object with a
\* 'version' key makes generateManifest reject with 'Invalid manifest'
\* before any addon or loader update is started.
C7_InvalidManifestRejected ==
    (pass.stage = "read" /\ InvalidShape(manifestFile.json)) =>
        /\ emitted = Rejected("Invalid manifest")
        /\ pc = "idle"
        /\ started = 0
        /\ log.updates = << >>
        /\ addons = << >>

\* C7 witness: the file held an object without a 'version' key and the run
\* was rejected.
C7_Witness ==
    /\ pass.stage = "read"
    /\ manifestFile.json.typeof = "object"
    /\ ~manifestFile.json.isNull
    /\ ~manifestFile.json.isArray
    /\ "version" \notin manifestFile.json.keys
    /\ emitted = Rejected("Invalid manifest")

NameList(a) == IF a.addon_names = None THEN << >> ELSE a.addon_names.list
Position(q, x) == CHOOSE k \in 1..Len(q) : q[k] = x
\* every element of old is in new, in the same relative order
KeepsOrder(old, new) ==
    /\ Range(old) \subseteq Range(new)
    /\ \A i, j \in 1..Len(old) : i < j => Position(new, old[i]) < Position(new, old[j])
\* the names of the releases an addon carries
RecordedNames(a) == NamesOf(a.release) \cup NamesOf(a.prerelease)

\* C8 as claimed: addon_names keeps every earlier name in order, has no
\* duplicate, and after a successful update holds the name of every product
\* observed in a release or prerelease discovery of that run.
C8_NamesOfEveryDiscovery ==
    \A i \in Updated :
        /\ KeepsOrder(NameList(snap[i]), NameList(addons[i]))
        /\ NoDuplicates(NameList(addons[i]))
        /\ (i = idx - 1 /\ ~Failed(i)) => log.seen \subseteq Range(NameList(addons[i]))

\* C8 amended: addon_names keeps every earlier name in order, has no
\* duplicate, and after a successful update holds the name of the release
\* and of the prerelease the resolver returned.
C8_NamesOfReturnedReleases ==
    \A i \in Updated :
        /\ KeepsOrder(NameList(snap[i]), NameList(addons[i]))
        /\ NoDuplicates(NameList(addons[i]))
        /\ ~Failed(i) => RecordedNames(addons[i]) \subseteq Range(NameList(addons[i]))

\* C8 witness: a successful update added a second name behind a recorded one.
C8_Witness ==
    \E i \in Updated :
        /\ ~Failed(i)
        /\ Len(NameList(snap[i])) = 1
        /\ Len(NameList(addons[i])) = 2
        /\ addons[i].release # snap[i].release

====
